---- MODULE Spec2Model ----
(***************************************************************************)
(* Model of bashfuscator/lib/string_obfuscators.py: the four String        *)
(* Obfuscators (FileGlob, FolderGlob, ForCode, HexHash), the payload each  *)
(* mutate() builds, and the execution of that payload by the shell.        *)
(*                                                                         *)
(* Strings are sequences of one-character strings.  A payload is a         *)
(* sequence of statements; each statement is a record that keeps the text  *)
(* the code interpolates (still quoted or escaped), and the shell actions  *)
(* unquote it when they execute the statement.                             *)
(***************************************************************************)
EXTENDS Integers, Sequences, FiniteSets, TLC

\* Longest command the model feeds to mutate().
MaxLen == 3

\* The characters commands are drawn from: a letter, the space, the single quote.
Chars == {"a", " ", "'"}

Strategies == {"FileGlob", "FolderGlob", "ForCode", "HexHash"}

SizePrefs == 0..4

Commands == UNION {[1..n -> Chars] : n \in 0..MaxLen}

VARIABLES
    strategy,       \* which Mutator class mutate() is called on
    sizePref,       \* mutate()'s sizePref argument
    userCmd,        \* mutate()'s userCmd argument
    pc,             \* position of the call: start, a loop, raised, returned, executed
    minDirLen,      \* GlobObfuscator.minDirLen
    maxDirLen,      \* GlobObfuscator.maxDirLen
    sectionSize,    \* GlobObfuscator.sectionSize
    writeableDir,   \* GlobObfuscator.writeableDir
    workingDir,     \* GlobObfuscator.workingDir
    parts,          \* FolderGlob.mutate's local list parts
    chunkPos,       \* FolderGlob.mutate's position in cmdChunks (1-based)
    payload,        \* self.payload
    uniqueCount,    \* how many unique strings the randomness service has handed out
    shuffledCmd,    \* ForCode.mutate: the shuffled alphabet, before escaping
    ogCmdIdxes,     \* ForCode.mutate: the recorded indexes
    chPos,          \* HexHash.mutate: position of ch in userCmd (1-based)
    randomString,   \* HexHash.mutate: the last seed drawn
    randomhash,     \* HexHash.mutate: hex digest of the last seed drawn
    obCmd,          \* HexHash.mutate: the statements emitted so far
    ip,             \* shell: index of the next payload statement
    dirs,           \* shell: the directories that exist
    files,          \* shell: <<directory, name>> -> content of the regular files
    arrays,         \* shell: array variable -> its elements
    output,         \* shell: what the payload has printed
    execErr         \* shell: a statement failed

vars == <<strategy, sizePref, userCmd, pc, minDirLen, maxDirLen, sectionSize,
          writeableDir, workingDir, parts, chunkPos, payload, uniqueCount,
          shuffledCmd, ogCmdIdxes, chPos, randomString, randomhash, obCmd,
          ip, dirs, files, arrays, output, execErr>>

callVars == <<strategy, sizePref, userCmd>>
globVars == <<minDirLen, maxDirLen, sectionSize, writeableDir, workingDir>>
folderVars == <<parts, chunkPos>>
forVars == <<shuffledCmd, ogCmdIdxes>>
hashVars == <<chPos, randomString, randomhash, obCmd>>
shellVars == <<ip, dirs, files, arrays, output, execErr>>

----------------------------------------------------------------------------
(* Strings *)

Min(a, b) == IF a < b THEN a ELSE b

RECURSIVE JoinRange(_, _, _)
\* The concatenation of ss[lo..hi], by halves so that the depth of the
\* recursion stays logarithmic.
JoinRange(ss, lo, hi) ==
    IF lo > hi THEN <<>>
    ELSE IF lo = hi THEN ss[lo]
    ELSE JoinRange(ss, lo, (lo + hi) \div 2) \o JoinRange(ss, ((lo + hi) \div 2) + 1, hi)

\* "".join(list)
Join(ss) == JoinRange(ss, 1, Len(ss))

\* n copies of the character c: c * n
Repeat(c, n) == [k \in 1..n |-> c]

\* str.replace(old, new) for one-character old and new
Replace(s, old, new) == [k \in 1..Len(s) |-> IF s[k] = old THEN new ELSE s[k]]

\* bashfuscator.common.helpers.escapeQuotes: every single quote becomes the
\* sequence  ' " ' " '  which closes the literal, gives the quote inside
\* double quotes, and opens the literal again.
escapeQuotes(s) ==
    Join([k \in 1..Len(s) |->
            IF s[k] = "'" THEN <<"'", "\"", "'", "\"", "'">> ELSE <<s[k]>>])

\* Code points of the characters the model uses.
Ord(c) ==
    CASE c = "\n" -> 10
      [] c = " "  -> 32
      [] c = "'"  -> 39
      [] c = "?"  -> 63
      [] c = "a"  -> 97

----------------------------------------------------------------------------
(* The randomness service *)

\* One letter per unique string, so that no two unique strings share a character.
Letters == <<"A", "B", "C", "D", "E", "F", "G", "H", "I", "J", "K", "L", "M", "N">>

\* randUniqueStr(minLen, maxLen): the id-th unique string of this session, of
\* length len.
randUniqueStr(id, len) == Repeat(Letters[id], len)

\* The lengths the model lets randUniqueStr(lo, hi) choose: both ends of the range.
NameLens(lo, hi) == {lo, hi}

\* randShuffle: the permutations of n items, as maps position -> item.
Shuffles(n) == {p \in [1..n -> 1..n] : \A i, j \in 1..n : p[i] = p[j] => i = j}

----------------------------------------------------------------------------
(* GlobObfuscator *)

\* GlobObfuscator.setSizes
setSizes(pref, cmd) ==
    CASE pref = 0 -> [minDirLen |-> 1, maxDirLen |-> 1, sectionSize |-> (Len(cmd) \div 3) + 1]
      [] pref = 1 -> [minDirLen |-> 1, maxDirLen |-> 3, sectionSize |-> (Len(cmd) \div 10) + 1]
      [] pref = 2 -> [minDirLen |-> 6, maxDirLen |-> 12, sectionSize |-> (Len(cmd) \div 100) + 1]
      [] pref = 3 -> [minDirLen |-> 12, maxDirLen |-> 24, sectionSize |-> 3]
      [] pref = 4 -> [minDirLen |-> 32, maxDirLen |-> 32, sectionSize |-> 1]

\* [userCmd[i:i + sectionSize] for i in range(0, len(userCmd), sectionSize)]
Chunks(cmd, size) ==
    [k \in 1..((Len(cmd) + size - 1) \div size) |->
        SubSeq(cmd, (k - 1) * size + 1, Min(k * size, Len(cmd)))]

RECURSIVE CeilLog2(_)
\* int(math.ceil(math.log(n, 2))) for n >= 1 (math.log raises for n = 0)
CeilLog2(n) == IF n <= 1 THEN 0 ELSE 1 + CeilLog2((n + 1) \div 2)

\* cmdLogLen of generate, after the "if cmdLogLen <= 0" clamp
LogLen(n) == IF CeilLog2(n) <= 0 THEN 1 ELSE CeilLog2(n)

RECURSIVE Bin(_)
\* binary digits of i, most significant first, no padding
Bin(i) ==
    IF i < 2 THEN <<IF i = 0 THEN "0" ELSE "1">>
    ELSE Bin(i \div 2) \o <<IF i % 2 = 0 THEN "0" ELSE "1">>

\* format(i, "0" + str(w) + "b"): zero-padded to at least w digits
FormatBinary(i, w) == Repeat("0", w - Len(Bin(i))) \o Bin(i)

\* A mutant of FileName: both binary digits become the wildcard.
FileNameOneSymbol(i, w) == Replace(Replace(FormatBinary(i, w), "0", "?"), "1", "?")

\* format(i, ...).replace("0", "?").replace("1", "\n"): the file of chunk i (0-based)
FileName(i, w) == Replace(Replace(FormatBinary(i, w), "0", "?"), "1", "\n")

\* "printf %s '" + ch + "' > '" + workingDir + "/" + name + "';"
WriteStmt(ch, dir, name) ==
    [op |-> "printf", text |-> escapeQuotes(ch), target |-> dir \o <<"/">> \o name]

\* "mkdir -p '" + workingDir + "';"
MkdirStmt(dir) == [op |-> "mkdir", dir |-> dir]

\* "cat '" + workingDir + "'/" + "?" * cmdLogLen + ";"
CatStmt(dir, w) == [op |-> "cat", dir |-> dir, pattern |-> Repeat("?", w)]

\* "rm '" + workingDir + "'/" + "?" * cmdLogLen + ";"
RmStmt(dir, w) == [op |-> "rm", dir |-> dir, pattern |-> Repeat("?", w)]

\* A mutant of Assemble: the cat statement is emitted before the writes.
AssembleCatFirst(dir, writes, w) ==
    <<MkdirStmt(dir), CatStmt(dir, w)>> \o writes \o <<RmStmt(dir, w)>>

\* The payload generate() concatenates from the shuffled write statements.
Assemble(dir, writes, w) ==
    <<MkdirStmt(dir)>> \o writes \o <<CatStmt(dir, w), RmStmt(dir, w)>>

\* GlobObfuscator.generate(sizePref, cmd, writeDir) with sectionSize = size, the
\* unique string name and the shuffle perm.  raised: math.log(0, 2) raised
\* ValueError, after writeableDir and workingDir were assigned.
generate(cmd, writeDir, size, name, perm) ==
    LET wdir     == writeDir \o name
        work     == escapeQuotes(wdir)
        cmdChars == Chunks(cmd, size)
        cmdLen   == Len(cmdChars)
        w        == LogLen(cmdLen)
        written  == [i \in 1..cmdLen |-> WriteStmt(cmdChars[i], work, FileName(i - 1, w))]
    IN  [writeableDir |-> wdir,
         workingDir   |-> work,
         raised       |-> cmdLen = 0,
         payload      |-> IF cmdLen = 0 THEN <<>>
                          ELSE Assemble(work, [i \in 1..cmdLen |-> written[perm[i]]], w)]

----------------------------------------------------------------------------
(* ForCode *)

\* string.punctuation + " " (the backquote, which has no string literal here, left out)
specialChars ==
    {"!", "\"", "#", "$", "%", "&", "'", "(", ")", "*", "+", ",", "-", ".", "/",
     ":", ";", "<", "=", ">", "?", "@", "[", "\\", "]", "^", "_", "{", "|",
     "}", "~", " "}

\* A mutant of find: the index counts from 1.
findOneBased(s, sub) ==
    LET hits == {k \in 1..(Len(s) - Len(sub) + 1) : SubSeq(s, k, k + Len(sub) - 1) = sub}
    IN  IF hits = {} THEN -1 ELSE CHOOSE k \in hits : \A h \in hits : k <= h

\* str.find(sub): the 0-based index of the first occurrence of sub, -1 when absent
find(s, sub) ==
    LET hits == {k \in 1..(Len(s) - Len(sub) + 1) : SubSeq(s, k, k + Len(sub) - 1) = sub}
    IN  IF hits = {} THEN -1 ELSE (CHOOSE k \in hits : \A h \in hits : k <= h) - 1

\* list(set(userCmd)) after randShuffle: every ordering of the distinct characters
Alphabets(cmd) ==
    LET cs == {cmd[k] : k \in 1..Len(cmd)}
    IN  {p \in [1..Cardinality(cs) -> cs] : \A i, j \in DOMAIN p : p[i] = p[j] => i = j}

RECURSIVE str(_)
\* str(i) of an integer
str(i) ==
    IF i < 0 THEN <<"-">> \o str(0 - i)
    ELSE IF i < 10 THEN <<<<"0", "1", "2", "3", "4", "5", "6", "7", "8", "9">>[i + 1]>>
    ELSE str(i \div 10) \o str(i % 10)

\* s[:-1]
DropLast(s) == SubSeq(s, 1, Len(s) - 1)

\* "".join([str(i) + " " for i in ogCmdIdxes])[:-1]
cmdIndexes(idxes) == DropLast(Join([k \in 1..Len(idxes) |-> str(idxes[k]) \o <<" ">>]))

\* The "escape special chars" loop of ForCode.mutate, with its final [:-1]
EscapeAlphabet(alphabet) ==
    DropLast(Join([k \in 1..Len(alphabet) |->
        (IF alphabet[k] \in specialChars THEN <<"\\", alphabet[k]>> ELSE <<alphabet[k]>>)
            \o <<" ">>]))

\* randGenVar(sizePref): a fresh variable name
randGenVar(id, pref) == randUniqueStr(id, pref + 1)

\* "{0}=({1});".format(charArrayVar, shuffledCmd)
ArrayStmt(var, text) == [op |-> "array", var |-> var, text |-> text]

\* "for {0} in {1}" followed by the brace body or the do ... done body, both
\* printf %s "${charArrayVar[$indexVar]}"
ForStmt(var, indexes, array, braces) ==
    [op |-> "for", var |-> var, indexes |-> indexes, array |-> array, braces |-> braces]

----------------------------------------------------------------------------
(* HexHash *)

HexDigits == <<"0", "1", "2", "3", "4", "5", "6", "7", "8", "9", "a", "b", "c", "d", "e", "f">>

\* str(bytes(ch, "utf-8").hex()) for a one-byte character
hexchar(ch) == <<HexDigits[(Ord(ch) \div 16) + 1], HexDigits[(Ord(ch) % 16) + 1]>>

\* The seeds the model lets randGenStr(1, 3) return.
Seeds == {<<"a">>, <<"x">>, <<"l">>, <<"a", "c">>, <<"a", "b", "c">>}

\* hashlib.md5(seed).digest().hex()
md5hex(s) ==
    CASE s = <<"a">> ->
        <<"0", "c", "c", "1", "7", "5", "b", "9", "c", "0", "f", "1", "b", "6", "a", "8", "3", "1", "c", "3", "9", "9", "e", "2", "6", "9", "7", "7", "2", "6", "6", "1">>
      [] s = <<"x">> ->
        <<"9", "d", "d", "4", "e", "4", "6", "1", "2", "6", "8", "c", "8", "0", "3", "4", "f", "5", "c", "8", "5", "6", "4", "e", "1", "5", "5", "c", "6", "7", "a", "6">>
      [] s = <<"l">> ->
        <<"2", "d", "b", "9", "5", "e", "8", "e", "1", "a", "9", "2", "6", "7", "b", "7", "a", "1", "1", "8", "8", "5", "5", "6", "b", "2", "0", "1", "3", "b", "3", "3">>
      [] s = <<"a", "c">> ->
        <<"e", "2", "0", "7", "5", "4", "7", "4", "2", "9", "4", "9", "8", "3", "e", "0", "1", "3", "e", "e", "4", "d", "d", "2", "2", "0", "1", "c", "7", "a", "7", "3">>
      [] s = <<"a", "b", "c">> ->
        <<"9", "0", "0", "1", "5", "0", "9", "8", "3", "c", "d", "2", "4", "f", "b", "0", "d", "6", "9", "6", "3", "f", "7", "d", "2", "8", "e", "1", "7", "f", "7", "2">>

\* A mutant of HexIn: the first hex digit alone decides.
HexInFirstDigit(target, digest) == \E k \in 1..Len(digest) : digest[k] = target[1]

\* A mutant of HexIn: only a digest that starts with the digits counts.
HexInPrefix(target, digest) == Len(digest) >= 2 /\ SubSeq(digest, 1, 2) = target

\* hexchar in randomhash
HexIn(target, digest) == find(digest, target) >= 0

\* The statement emitted per character: printf of the byte whose two hex digits
\* are bytes index + 1 to index + 2 of the md5sum of randomString.
HashStmt(seed, index) ==
    [op |-> "hexprintf", seed |-> seed, from |-> str(index + 1), to |-> str(index + 2)]

----------------------------------------------------------------------------
(* The shell that executes the payload *)

\* The quoting mode ("none", "single" or "double") after the shell has read
\* character c in the given mode, and whether c is kept as a literal.
QuoteStep(mode, c) ==
    CASE mode = "none" /\ c = "'"    -> [mode |-> "single", keep |-> FALSE]
      [] mode = "none" /\ c = "\""   -> [mode |-> "double", keep |-> FALSE]
      [] mode = "single" /\ c = "'"  -> [mode |-> "none", keep |-> FALSE]
      [] mode = "double" /\ c = "\"" -> [mode |-> "none", keep |-> FALSE]
      [] OTHER -> [mode |-> mode, keep |-> TRUE]

RECURSIVE ShellWord(_, _, _, _)
\* What the shell reads from t[lo..hi], entered in the given quoting mode: the
\* mode it ends in and the word read, quotes removed and what they enclose
\* literal.  The text is read by halves, the second half in the mode the first
\* half ends in, so that the depth of the recursion stays logarithmic.
ShellWord(t, lo, hi, mode) ==
    IF lo > hi THEN [mode |-> mode, word |-> <<>>]
    ELSE IF lo = hi
         THEN [mode |-> QuoteStep(mode, t[lo]).mode,
               word |-> IF QuoteStep(mode, t[lo]).keep THEN <<t[lo]>> ELSE <<>>]
    ELSE LET left  == ShellWord(t, lo, (lo + hi) \div 2, mode)
             right == CASE left.mode = "none"   -> ShellWord(t, ((lo + hi) \div 2) + 1, hi, "none")
                        [] left.mode = "single" -> ShellWord(t, ((lo + hi) \div 2) + 1, hi, "single")
                        [] left.mode = "double" -> ShellWord(t, ((lo + hi) \div 2) + 1, hi, "double")
         IN  [mode |-> right.mode, word |-> left.word \o right.word]

\* The word read from  'text'  (text interpolated between single quotes).
\* closed: every quote opened is closed again.
SingleQuoted(text) ==
    LET r == ShellWord(<<"'">> \o text \o <<"'">>, 1, Len(text) + 2, "none")
    IN  [closed |-> r.mode = "none", word |-> r.word]

RECURSIVE Words(_, _, _, _)
\* Word splitting of an unquoted text: a backslash makes the next character
\* literal, an unescaped space ends the word.
Words(t, k, cur, inWord) ==
    IF k > Len(t) THEN IF inWord THEN <<cur>> ELSE <<>>
    ELSE IF t[k] = "\\" /\ k < Len(t) THEN Words(t, k + 2, Append(cur, t[k + 1]), TRUE)
    ELSE IF t[k] = " " THEN (IF inWord THEN <<cur>> ELSE <<>>) \o Words(t, k + 1, <<>>, FALSE)
    ELSE Words(t, k + 1, Append(cur, t[k]), TRUE)

RECURSIVE ParseInt(_)
\* The integer a decimal word denotes.
ParseInt(w) ==
    IF w = <<>> THEN 0
    ELSE IF Head(w) = "-" THEN 0 - ParseInt(Tail(w))
    ELSE 10 * ParseInt(DropLast(w))
         + (CHOOSE d \in 0..9 : <<"0", "1", "2", "3", "4", "5", "6", "7", "8", "9">>[d + 1] = w[Len(w)])

\* Index of the last "/" of a path (0 when there is none).
LastSlash(p) ==
    LET at == {k \in 1..Len(p) : p[k] = "/"}
    IN  IF at = {} THEN 0 ELSE CHOOSE k \in at : \A h \in at : h <= k

Parent(p) == SubSeq(p, 1, LastSlash(p) - 1)

Basename(p) == SubSeq(p, LastSlash(p) + 1, Len(p))

\* mkdir -p: the directory and every missing ancestor
Ancestors(p) == {p} \cup {SubSeq(p, 1, k - 1) : k \in {j \in 2..Len(p) : p[j] = "/"}}

\* A name matches a pattern of the same length whose "?" stand for any character.
GlobMatch(pattern, name) ==
    /\ Len(name) = Len(pattern)
    /\ \A k \in 1..Len(pattern) : pattern[k] = "?" \/ pattern[k] = name[k]

\* Collation of file names: byte order, so the newline sorts before "?".
NameLess(a, b) ==
    \/ Len(a) < Len(b) /\ SubSeq(b, 1, Len(a)) = a
    \/ \E k \in 1..Min(Len(a), Len(b)) :
          /\ SubSeq(a, 1, k - 1) = SubSeq(b, 1, k - 1)
          /\ Ord(a[k]) < Ord(b[k])

RECURSIVE SortNames(_)
\* The names of S in collation order: the order glob expansion returns them in.
SortNames(S) ==
    IF S = {} THEN <<>>
    ELSE LET first == CHOOSE n \in S : \A m \in S \ {n} : NameLess(n, m)
         IN  <<first>> \o SortNames(S \ {first})

\* The regular files of directory d in file system fs that the pattern matches.
FileMatches(fs, d, pattern) ==
    {key[2] : key \in {k \in DOMAIN fs : k[1] = d /\ GlobMatch(pattern, k[2])}}

\* The subdirectories of d that the pattern matches.
DirMatches(ds, d, pattern) ==
    {Basename(p) : p \in {q \in ds : Parent(q) = d /\ GlobMatch(pattern, Basename(q))}}

\* What cat prints for the glob expansion of pattern in d.
CatOutput(fs, d, pattern) ==
    LET names == SortNames(FileMatches(fs, d, pattern))
    IN  Join([k \in 1..Len(names) |-> fs[<<d, names[k]>>]])

HexVal(c) == (CHOOSE d \in 1..16 : HexDigits[d] = c) - 1

IsHex(c) == \E d \in 1..16 : HexDigits[d] = c

\* The character of a byte value ("~" stands for a byte outside the model).
Chr(v) ==
    IF \E c \in {"\n", " ", "'", "?", "a"} : Ord(c) = v
    THEN CHOOSE c \in {"\n", " ", "'", "?", "a"} : Ord(c) = v
    ELSE "~"

\* The line md5sum prints for its standard input.
Md5sumLine(seed) == md5hex(seed) \o <<" ", " ", "-">>

\* cut -b from-to (nothing for a range that starts before byte 1)
Cut(line, from, to) == IF from < 1 THEN <<>> ELSE SubSeq(line, from, Min(to, Len(line)))

\* ${array[i]}: the element at index i, empty when unset
Element(arr, i) == IF 0 <= i /\ i < Len(arr) THEN arr[i + 1] ELSE <<>>

----------------------------------------------------------------------------
(* State machine *)

\* Mutator.writeDir: the writable directory prefix the caller configures.
WriteDir == <<"/", "t", "m", "p", "/">>

Init ==
    /\ strategy \in Strategies
    /\ sizePref \in SizePrefs
    /\ userCmd \in Commands
    /\ pc = "call"
    /\ minDirLen = 0 /\ maxDirLen = 0 /\ sectionSize = 0
    /\ writeableDir = <<>> /\ workingDir = <<>>
    /\ parts = <<>> /\ chunkPos = 1
    /\ payload = <<>>
    /\ uniqueCount = 0
    /\ shuffledCmd = <<>> /\ ogCmdIdxes = <<>>
    /\ chPos = 1 /\ randomString = <<>> /\ randomhash = <<>> /\ obCmd = <<>>
    /\ ip = 1
    /\ dirs = {Parent(WriteDir)}
    /\ files = <<>>
    /\ arrays = <<>>
    /\ output = <<>>
    /\ execErr = FALSE

\* FileGlob.mutate(sizePref, timePref, userCmd)
FileGlobMutate ==
    /\ pc = "call" /\ strategy = "FileGlob"
    /\ LET sizes == setSizes(sizePref, userCmd)
       IN  \E len \in NameLens(sizes.minDirLen, sizes.maxDirLen) :
           \E perm \in Shuffles(Len(Chunks(userCmd, sizes.sectionSize))) :
             LET g == generate(userCmd, WriteDir, sizes.sectionSize,
                               randUniqueStr(uniqueCount + 1, len), perm)
             IN  /\ minDirLen' = sizes.minDirLen
                 /\ maxDirLen' = sizes.maxDirLen
                 /\ sectionSize' = sizes.sectionSize
                 /\ writeableDir' = g.writeableDir
                 /\ workingDir' = g.workingDir
                 /\ payload' = IF g.raised THEN payload ELSE g.payload
                 /\ pc' = IF g.raised THEN "raised" ELSE "returned"
                 /\ uniqueCount' = uniqueCount + 1
    /\ UNCHANGED <<callVars, folderVars, forVars, hashVars, shellVars>>

\* FolderGlob.mutate up to its loop: setSizes, the top-level directory, parts = []
FolderGlobBegin ==
    /\ pc = "call" /\ strategy = "FolderGlob"
    /\ LET sizes == setSizes(sizePref, userCmd)
       IN  \E len \in NameLens(sizes.minDirLen, sizes.maxDirLen) :
             /\ minDirLen' = sizes.minDirLen
             /\ maxDirLen' = sizes.maxDirLen
             /\ sectionSize' = sizes.sectionSize
             /\ writeableDir' = WriteDir \o randUniqueStr(uniqueCount + 1, len)
             /\ workingDir' = escapeQuotes(WriteDir \o randUniqueStr(uniqueCount + 1, len))
             /\ uniqueCount' = uniqueCount + 1
    /\ parts' = <<>>
    /\ chunkPos' = 1
    /\ pc' = "folder_loop"
    /\ UNCHANGED <<callVars, payload, forVars, hashVars, shellVars>>

\* One iteration of "for chunk in cmdChunks": generate for the chunk, then
\* parts.append(self.payload).  The two unique strings of one iteration get the
\* same length.
FolderGlobChunk ==
    /\ pc = "folder_loop"
    /\ chunkPos <= Len(Chunks(userCmd, sectionSize))
    /\ \E len \in NameLens(minDirLen, maxDirLen) :
       \E perm \in Shuffles(Len(Chunks(Chunks(userCmd, sectionSize)[chunkPos], sectionSize))) :
         LET g == generate(Chunks(userCmd, sectionSize)[chunkPos],
                           writeableDir \o <<"/">> \o randUniqueStr(uniqueCount + 1, len),
                           sectionSize, randUniqueStr(uniqueCount + 2, len), perm)
         IN  /\ writeableDir' = g.writeableDir
             /\ workingDir' = g.workingDir
             /\ payload' = IF g.raised THEN payload ELSE g.payload
             /\ parts' = IF g.raised THEN parts ELSE Append(parts, g.payload)
             /\ chunkPos' = chunkPos + 1
             /\ pc' = IF g.raised THEN "raised" ELSE "folder_loop"
             /\ uniqueCount' = uniqueCount + 2
    /\ UNCHANGED <<callVars, minDirLen, maxDirLen, sectionSize, forVars, hashVars, shellVars>>

\* After the loop: self.payload = "".join(parts); return self.payload
FolderGlobReturn ==
    /\ pc = "folder_loop"
    /\ chunkPos > Len(Chunks(userCmd, sectionSize))
    /\ payload' = Join(parts)
    /\ pc' = "returned"
    /\ UNCHANGED <<callVars, globVars, folderVars, uniqueCount, forVars, hashVars, shellVars>>

\* ForCode.mutate(sizePref, timePref, userCmd)
ForCodeMutate ==
    /\ pc = "call" /\ strategy = "ForCode"
    /\ \E alphabet \in Alphabets(userCmd) :
       \E braces \in BOOLEAN :
         LET idxes        == [k \in 1..Len(userCmd) |-> find(alphabet, <<userCmd[k]>>)]
             charArrayVar == randGenVar(uniqueCount + 1, sizePref)
             indexVar     == randGenVar(uniqueCount + 2, sizePref)
         IN  /\ shuffledCmd' = alphabet
             /\ ogCmdIdxes' = idxes
             /\ payload' = <<ArrayStmt(charArrayVar, EscapeAlphabet(alphabet)),
                             ForStmt(indexVar, cmdIndexes(idxes), charArrayVar, braces)>>
    /\ uniqueCount' = uniqueCount + 2
    /\ pc' = "returned"
    /\ UNCHANGED <<callVars, globVars, folderVars, hashVars, shellVars>>

\* HexHash.mutate up to its loop: obCmd = ""
HexHashBegin ==
    /\ pc = "call" /\ strategy = "HexHash"
    /\ obCmd' = <<>>
    /\ chPos' = 1
    /\ randomhash' = <<>>
    /\ pc' = "hash_loop"
    /\ UNCHANGED <<callVars, globVars, folderVars, payload, uniqueCount, forVars,
                   randomString, shellVars>>

\* One iteration of "while not hexchar in randomhash": draw the seed, hash it
HexHashDraw(seed) ==
    /\ pc = "hash_loop"
    /\ chPos <= Len(userCmd)
    /\ ~HexIn(hexchar(userCmd[chPos]), randomhash)
    /\ randomString' = seed
    /\ randomhash' = md5hex(seed)
    /\ UNCHANGED <<callVars, pc, globVars, folderVars, payload, uniqueCount, forVars,
                   chPos, obCmd, shellVars>>

\* The while loop is left: index = randomhash.find(hexchar), the statement is
\* appended, and the for loop moves to the next character (randomhash = "")
HexHashEmit ==
    /\ pc = "hash_loop"
    /\ chPos <= Len(userCmd)
    /\ HexIn(hexchar(userCmd[chPos]), randomhash)
    /\ obCmd' = Append(obCmd, HashStmt(randomString, find(randomhash, hexchar(userCmd[chPos]))))
    /\ chPos' = chPos + 1
    /\ randomhash' = <<>>
    /\ UNCHANGED <<callVars, pc, globVars, folderVars, payload, uniqueCount, forVars,
                   randomString, shellVars>>

\* After the for loop: self.payload = obCmd; return self.payload
HexHashReturn ==
    /\ pc = "hash_loop"
    /\ chPos > Len(userCmd)
    /\ payload' = obCmd
    /\ pc' = "returned"
    /\ UNCHANGED <<callVars, globVars, folderVars, uniqueCount, forVars, hashVars, shellVars>>

\* The shell is about to execute statement ip of the returned payload.
AtStmt(op) == pc = "returned" /\ ip <= Len(payload) /\ payload[ip].op = op

mutateVars == <<callVars, pc, globVars, folderVars, payload, uniqueCount, forVars, hashVars>>

\* mkdir -p 'dir';
ShellMkdir ==
    /\ AtStmt("mkdir")
    /\ dirs' = dirs \cup Ancestors(SingleQuoted(payload[ip].dir).word)
    /\ execErr' = (execErr \/ ~SingleQuoted(payload[ip].dir).closed)
    /\ ip' = ip + 1
    /\ UNCHANGED <<mutateVars, files, arrays, output>>

\* printf %s 'text' > 'target';
ShellPrintf ==
    /\ AtStmt("printf")
    /\ LET content == SingleQuoted(payload[ip].text)
           path    == SingleQuoted(payload[ip].target)
           ok      == /\ content.closed /\ path.closed
                      /\ Parent(path.word) \in dirs
                      /\ path.word \notin dirs
       IN  /\ files' = IF ok THEN (<<Parent(path.word), Basename(path.word)>> :> content.word) @@ files
                       ELSE files
           /\ execErr' = (execErr \/ ~ok)
    /\ ip' = ip + 1
    /\ UNCHANGED <<mutateVars, dirs, arrays, output>>

\* cat 'dir'/pattern;
ShellCat ==
    /\ AtStmt("cat")
    /\ LET d == SingleQuoted(payload[ip].dir).word
       IN  /\ output' = output \o CatOutput(files, d, payload[ip].pattern)
           /\ execErr' = (\/ execErr
                          \/ FileMatches(files, d, payload[ip].pattern) = {}
                          \/ DirMatches(dirs, d, payload[ip].pattern) # {})
    /\ ip' = ip + 1
    /\ UNCHANGED <<mutateVars, dirs, files, arrays>>

\* rm 'dir'/pattern;
ShellRm ==
    /\ AtStmt("rm")
    /\ LET d    == SingleQuoted(payload[ip].dir).word
           gone == {<<d, n>> : n \in FileMatches(files, d, payload[ip].pattern)}
       IN  /\ files' = [key \in DOMAIN files \ gone |-> files[key]]
           /\ execErr' = (\/ execErr
                          \/ gone = {}
                          \/ DirMatches(dirs, d, payload[ip].pattern) # {})
    /\ ip' = ip + 1
    /\ UNCHANGED <<mutateVars, dirs, arrays, output>>

\* var=(text);
ShellArray ==
    /\ AtStmt("array")
    /\ arrays' = (payload[ip].var :> Words(payload[ip].text, 1, <<>>, FALSE)) @@ arrays
    /\ ip' = ip + 1
    /\ UNCHANGED <<mutateVars, dirs, files, output, execErr>>

\* for var in indexes; printf %s "${array[$var]}" in either loop form
ShellFor ==
    /\ AtStmt("for")
    /\ LET idxes == Words(payload[ip].indexes, 1, <<>>, FALSE)
           arr   == IF payload[ip].array \in DOMAIN arrays THEN arrays[payload[ip].array] ELSE <<>>
       IN  output' = output \o Join([k \in 1..Len(idxes) |-> Element(arr, ParseInt(idxes[k]))])
    /\ ip' = ip + 1
    /\ UNCHANGED <<mutateVars, dirs, files, arrays, execErr>>

\* printf "\x$(printf 'seed'|md5sum|cut -b from-to)";
ShellHexPrintf ==
    /\ AtStmt("hexprintf")
    /\ LET two == Cut(Md5sumLine(payload[ip].seed), ParseInt(payload[ip].from), ParseInt(payload[ip].to))
           ok  == Len(two) = 2 /\ IsHex(two[1]) /\ IsHex(two[2])
       IN  /\ output' = IF ok THEN Append(output, Chr(16 * HexVal(two[1]) + HexVal(two[2])))
                        ELSE output
           /\ execErr' = (execErr \/ ~ok)
    /\ ip' = ip + 1
    /\ UNCHANGED <<mutateVars, dirs, files, arrays>>

Next ==
    \/ FileGlobMutate
    \/ FolderGlobBegin
    \/ FolderGlobChunk
    \/ FolderGlobReturn
    \/ ForCodeMutate
    \/ HexHashBegin
    \/ \E seed \in Seeds : HexHashDraw(seed)
    \/ HexHashEmit
    \/ HexHashReturn
    \/ ShellMkdir
    \/ ShellPrintf
    \/ ShellCat
    \/ ShellRm
    \/ ShellArray
    \/ ShellFor
    \/ ShellHexPrintf

Spec == Init /\ [][Next]_vars

\* HexHash alone: the specification the termination of its search is checked under.
InitHexHash == Init /\ strategy = "HexHash"

NextHexHash ==
    \/ HexHashBegin
    \/ \E seed \in Seeds : HexHashDraw(seed)
    \/ HexHashEmit
    \/ HexHashReturn
    \/ ShellHexPrintf

\* The randomness service is fair: every seed it can return is eventually
\* returned while the search goes on; and the process keeps running.
SpecHexHashFair ==
    /\ InitHexHash
    /\ [][NextHexHash]_vars
    /\ WF_vars(NextHexHash)
    /\ \A seed \in Seeds : WF_vars(HexHashDraw(seed))

\* HexHash alone without the fairness of the randomness service.
SpecHexHash == InitHexHash /\ [][NextHexHash]_vars

\* ForCode alone: mutate, then the interpreter on its two statements.
InitForCode == Init /\ strategy = "ForCode"

NextForCode ==
    \/ ForCodeMutate
    \/ ShellArray
    \/ ShellFor

SpecForCode == InitForCode /\ [][NextForCode]_vars

\* The two glob strategies: mutate, then the interpreter on the payload.
InitGlob == Init /\ strategy \in {"FileGlob", "FolderGlob"}

NextGlob ==
    \/ FileGlobMutate
    \/ FolderGlobBegin
    \/ FolderGlobChunk
    \/ FolderGlobReturn
    \/ ShellMkdir
    \/ ShellPrintf
    \/ ShellCat
    \/ ShellRm

SpecGlob == InitGlob /\ [][NextGlob]_vars

----------------------------------------------------------------------------
(* Properties *)

\* The payload has been executed to its end.
Executed == pc = "returned" /\ ip > Len(payload)

IsGlob == strategy \in {"FileGlob", "FolderGlob"}

\* cmdChars, cmdLen and cmdLogLen of the generate call FileGlob.mutate makes.
cmdChars == Chunks(userCmd, sectionSize)
cmdLen == Len(cmdChars)
cmdLogLen == LogLen(cmdLen)

RECURSIVE Pow2(_)
Pow2(k) == IF k = 0 THEN 1 ELSE 2 * Pow2(k - 1)

\* The unquoted paths the printf statements of payload P write to.
WriteTargets(P) ==
    [j \in {i \in DOMAIN P : P[i].op = "printf"} |-> SingleQuoted(P[j].target).word]

\* The unquoted directories the mkdir statements of payload P create.
MadeDirs(P) ==
    [j \in {i \in DOMAIN P : P[i].op = "mkdir"} |-> SingleQuoted(P[j].dir).word]

Injective(f) == \A i, j \in DOMAIN f : f[i] = f[j] => i = j

\* target occurs in digest as two adjacent hex digits.
Occurs(target, digest) == \E p \in 1..(Len(digest) - 1) : SubSeq(digest, p, p + 1) = target

\* Some seed the randomness service can return has a digest containing the
\* two hex digits of character c.
HasSeed(c) == \E seed \in Seeds : Occurs(hexchar(c), md5hex(seed))

\* C1: File Glob round-trip.  Executing the payload FileGlob.mutate returns for
\* a non-empty command, with glob matches sorted newline before "?", prints
\* exactly the command.
C1_FileGlobRoundTrip ==
    (strategy = "FileGlob" /\ userCmd # <<>> /\ Executed) => (output = userCmd /\ ~execErr)

\* C2: Glob filename ordering.  Sorting the file names of chunk indices
\* 0..n-1 in the collation (newline before "?") lists them in index order.
C2_NamesSortInChunkOrder ==
    (strategy = "FileGlob" /\ pc = "returned") =>
        SortNames({FileName(i, cmdLogLen) : i \in 0..(cmdLen - 1)})
            = [k \in 1..cmdLen |-> FileName(k - 1, cmdLogLen)]

\* C3: Degenerate input.  For the empty command and for a one-character
\* command, mutate of every strategy raises no error, and executing the
\* payload it returns prints the command.
C3_DegenerateInput ==
    Len(userCmd) <= 1 =>
        /\ pc # "raised"
        /\ Executed => (output = userCmd /\ ~execErr)

\* C4: ForCode coverage.  The alphabet holds each distinct character of the
\* command exactly once, there is one recorded index per position of the
\* command, every index is within the alphabet and selects the character of
\* its position, and the executed payload prints the command.
C4_IndexCoverage ==
    (strategy = "ForCode" /\ pc = "returned") =>
        /\ \A k \in DOMAIN shuffledCmd : \E j \in DOMAIN userCmd : userCmd[j] = shuffledCmd[k]
        /\ \A j \in DOMAIN userCmd :
              Cardinality({k \in DOMAIN shuffledCmd : shuffledCmd[k] = userCmd[j]}) = 1
        /\ Len(ogCmdIdxes) = Len(userCmd)
        /\ \A j \in DOMAIN userCmd :
              /\ 0 <= ogCmdIdxes[j]
              /\ ogCmdIdxes[j] < Len(shuffledCmd)
              /\ shuffledCmd[ogCmdIdxes[j] + 1] = userCmd[j]
        /\ Executed => output = userCmd

\* A repeated character, and an alphabet whose order differs from the order of
\* first appearance in the command.
C4_Witness ==
    /\ strategy = "ForCode" /\ Executed
    /\ Len(userCmd) = 3 /\ Len(shuffledCmd) = 2
    /\ userCmd[1] = userCmd[3]
    /\ ogCmdIdxes = <<1, 0, 1>>

\* C5: Hash search correctness.  Every statement HexHash emits, the k-th for
\* the k-th character, names a seed the service returned and the byte range
\* [p, p + 1] with p the 1-based position of the first occurrence of the
\* character's two hex digits in the seed's digest, so cutting that range out
\* of the digest gives those two digits; the statement just emitted names the
\* last seed drawn.
C5_HashSearchCorrect ==
    strategy = "HexHash" =>
        /\ Len(obCmd) = chPos - 1
        /\ pc = "returned" => (payload = obCmd /\ Len(payload) = Len(userCmd))
        /\ (obCmd # <<>> /\ randomhash = <<>>) => obCmd[Len(obCmd)].seed = randomString
        /\ \A k \in DOMAIN obCmd :
              LET p == ParseInt(obCmd[k].from)
              IN  /\ obCmd[k].seed \in Seeds
                  /\ p >= 1
                  /\ ParseInt(obCmd[k].to) = p + 1
                  /\ Cut(md5hex(obCmd[k].seed), p, p + 1) = hexchar(userCmd[k])
                  /\ \A q \in 1..(p - 1) :
                        SubSeq(md5hex(obCmd[k].seed), q, q + 1) # hexchar(userCmd[k])

\* A returned payload with a statement whose seed's digest holds the target
\* twice, after other seeds were emitted too.
C5_Witness ==
    /\ strategy = "HexHash" /\ pc = "returned" /\ Len(userCmd) = 3
    /\ \E k \in DOMAIN payload : payload[k].seed = <<"a", "c">>
    /\ \E k \in DOMAIN payload : payload[k].seed = <<"x">>

\* C6: Uniqueness.  No two write statements of a payload, or of the payloads
\* FolderGlob collects, target the same path; the map from chunk index to file
\* name in generate is injective, with 2^cmdLogLen >= cmdLen; and no two
\* chunks of FolderGlob get the same directory.  The payload is looked at as
\* mutate built it, before the interpreter starts on it.
C6_NoPathCollision ==
    (IsGlob /\ pc \in {"folder_loop", "returned"} /\ ip = 1) =>
        LET collected == IF strategy = "FolderGlob" THEN Join(parts) ELSE payload
            targets   == WriteTargets(collected)
            made      == MadeDirs(collected)
            names     == [i \in 0..(cmdLen - 1) |-> FileName(i, cmdLogLen)]
        IN  /\ pc = "returned" => payload = collected
            /\ Injective(targets)
            /\ Injective(made)
            /\ strategy = "FileGlob" =>
                  /\ Pow2(cmdLogLen) >= cmdLen
                  /\ Injective(names)
                  /\ {targets[j] : j \in DOMAIN targets}
                        = {workingDir \o <<"/">> \o names[i] : i \in DOMAIN names}

\* A FileGlob payload of three chunks.
C6_Witness ==
    /\ strategy = "FileGlob" /\ pc = "returned"
    /\ cmdLen = 3
    /\ Cardinality(DOMAIN WriteTargets(payload)) = 3

\* C7: Size-policy monotonicity.  The policy setSizes gives the call's
\* preference has a chunk size no larger, and name-length bounds no smaller,
\* than the policy of every smaller preference for the same command;
\* preference 0 gives name length 1, preference 4 name length 32 and chunk
\* size 1.
C7_SizePolicyMonotone ==
    (IsGlob /\ pc \in {"folder_loop", "returned"}) =>
        /\ \A p \in SizePrefs :
              p < sizePref =>
                 /\ sectionSize <= setSizes(p, userCmd).sectionSize
                 /\ minDirLen >= setSizes(p, userCmd).minDirLen
                 /\ maxDirLen >= setSizes(p, userCmd).maxDirLen
        /\ sizePref = 0 => (minDirLen = 1 /\ maxDirLen = 1)
        /\ sizePref = 4 => (minDirLen = 32 /\ maxDirLen = 32 /\ sectionSize = 1)

\* The payload P that generate built in directory text dir for the chunks cs:
\* mkdir first, then each chunk's write exactly once, then cat, then rm with
\* cat's directory and pattern.
GeneratedShape(P, cs, dir) ==
    /\ Len(P) = Len(cs) + 3
    /\ P[1] = MkdirStmt(dir)
    /\ \A j \in 2..(Len(P) - 2) : P[j].op = "printf"
    /\ \A i \in DOMAIN cs :
          Cardinality({j \in 2..(Len(P) - 2) :
                         P[j] = WriteStmt(cs[i], dir, FileName(i - 1, LogLen(Len(cs))))}) = 1
    /\ P[Len(P) - 1] = CatStmt(dir, LogLen(Len(cs)))
    /\ P[Len(P)].op = "rm"
    /\ P[Len(P)].dir = P[Len(P) - 1].dir
    /\ P[Len(P)].pattern = P[Len(P) - 1].pattern

\* The files the writes of generate leave, whatever their order.
ExpectedFiles ==
    [key \in {<<workingDir, FileName(i, cmdLogLen)>> : i \in 0..(cmdLen - 1)} |->
        cmdChars[(CHOOSE i \in 0..(cmdLen - 1) : FileName(i, cmdLogLen) = key[2]) + 1]]

\* C8: Write-order independence.  Every payload generate builds has the shape
\* mkdir, the writes (each chunk's once), cat, rm with cat's directory and
\* pattern; whatever permutation the shuffle chose, when cat is reached the
\* file of index i holds chunk i and nothing else is in the directory, and
\* what cat prints is decided by that directory state alone.
C8_WriteOrderIndependent ==
    /\ (strategy = "FileGlob" /\ pc = "returned") =>
          /\ GeneratedShape(payload, cmdChars, workingDir)
          /\ ip \in {Len(payload) - 1, Len(payload)} => files = ExpectedFiles
          /\ ip >= Len(payload) => output = CatOutput(ExpectedFiles, workingDir, Repeat("?", cmdLogLen))
    /\ (strategy = "FolderGlob" /\ pc \in {"folder_loop", "returned"}) =>
          \A k \in DOMAIN parts :
             GeneratedShape(parts[k], <<cmdChars[k]>>, parts[k][1].dir)

\* cat is about to run on three files whose writes came in another order than
\* the chunks.
C8_Witness ==
    /\ strategy = "FileGlob" /\ AtStmt("cat")
    /\ cmdLen = 3
    /\ payload[2] = WriteStmt(cmdChars[3], workingDir, FileName(2, cmdLogLen))
    /\ payload[3] = WriteStmt(cmdChars[1], workingDir, FileName(0, cmdLogLen))

\* C9: Folder Glob parent directory is stable.  While chunks remain, the
\* per-chunk generate calls have left the top-level working directory as
\* FolderGlob.mutate chose it, and every chunk's directory is a direct child
\* of that one directory.
C9_StableParent ==
    (strategy = "FolderGlob" /\ pc \in {"folder_loop", "returned"} /\ parts # <<>>) =>
        /\ chunkPos <= cmdLen => writeableDir = Parent(MadeDirs(parts[1])[1])
        /\ \A k \in DOMAIN parts :
              Parent(MadeDirs(parts[k])[1]) = Parent(MadeDirs(parts[1])[1])

\* The search of the current character goes on.
Searching == pc = "hash_loop" /\ chPos <= Len(userCmd)

\* The digest of the last seed drawn contains the current character's digits.
Found == Searching /\ Occurs(hexchar(userCmd[chPos]), randomhash)

\* C10: Hash search termination.  Under a fair randomness service, the search
\* for a character some seed matches eventually finds a match, and mutate
\* eventually returns when every character of the command has such a seed;
\* mutate never returns otherwise.
C10_SearchTerminates ==
    /\ (Searching /\ HasSeed(userCmd[chPos])) ~> Found
    /\ (pc = "call" /\ \A k \in DOMAIN userCmd : HasSeed(userCmd[k])) ~> (pc = "returned")
    /\ [](pc = "returned" => \A k \in DOMAIN userCmd : HasSeed(userCmd[k]))

\* mutate has returned for a command of three characters.
C10_Witness ==
    /\ strategy = "HexHash" /\ pc = "returned"
    /\ Len(userCmd) = 3
    /\ payload[1].seed # payload[3].seed

====
